---- MODULE Spec2Model ----
(***************************************************************************)
(* A model of src/Room.js: one Room, its variable Map and its client       *)
(* array, with one action per public method, and of the validators of      *)
(* src/checkers.js.  `usernames` is the username property of each client   *)
(* object the room may hold a reference to.                                *)
(*                                                                         *)
(* JavaScript values are records [type, chars]: `type` is the result of    *)
(* typeof, `chars` the UTF-16 code units of a string (empty for values     *)
(* that are not strings).  A Map is the sequence of its entries in         *)
(* insertion order.  A thrown Error is represented by its message.         *)
(***************************************************************************)
EXTENDS Integers, Sequences, FiniteSets

VARIABLES variables, clients, last, usernames

vars == <<variables, clients, last, usernames>>

----------------------------------------------------------------------------
(* Constants of Room.js *)

MAX_VARIABLES == 10

MAX_VALUE_LENGTH == 1000

MAX_NAME_LENGTH == 100

\* '☁ ' : U+2601 followed by a space, two UTF-16 code units
NAME_REQUIRED_PREFIX == <<9729, 32>>

----------------------------------------------------------------------------
(* Bounds of the model *)

\* number of short valid names offered to Spec
NumNames == 1

\* number of client references offered to Spec and to SpecCap
FewClients == 1

\* number of client references offered to SpecClients
MaxClients == 3

\* number of valid names beyond MAX_VARIABLES offered to SpecCap
CapExtraNames == 1

\* length of the longest username built from UsernameUnits
MaxUsernameLen == 2

----------------------------------------------------------------------------
(* JavaScript values *)

Str(chars) == [type |-> "string", chars |-> chars]

\* a value that is not a string (the number 0)
NotAString == [type |-> "number", chars |-> <<>>]

\* placeholder for an argument a method does not take
Undefined == [type |-> "undefined", chars |-> <<>>]

NoClient == 0

Repeat(c, n) == [i \in 1..n |-> c]

\* String.prototype.startsWith
startsWith(s, prefix) ==
  /\ Len(s) >= Len(prefix)
  /\ SubSeq(s, 1, Len(prefix)) = prefix

\* String.prototype.toLowerCase left undone
toLowerCaseIdentity(s) == s

\* String.prototype.toLowerCase, on Basic Latin code units: A-Z to a-z
toLowerCase(s) ==
  [i \in 1..Len(s) |-> IF s[i] \in 65..90 THEN s[i] + 32 ELSE s[i]]

----------------------------------------------------------------------------
(* Validators of Room.js *)

isValidVariableName(name) ==
  /\ name.type = "string"
  /\ startsWith(name.chars, NAME_REQUIRED_PREFIX)
  /\ Len(name.chars) < MAX_NAME_LENGTH

\* isValidValue with <= in place of <
isValidValueOffByOne(value) ==
  /\ value.type = "string"
  /\ Len(value.chars) <= MAX_VALUE_LENGTH

isValidValue(value) ==
  /\ value.type = "string"
  /\ Len(value.chars) < MAX_VALUE_LENGTH

----------------------------------------------------------------------------
(* Validators of checkers.js *)

\* String.prototype.toUpperCase of one code unit: a-z to A-Z, and the two
\* code units outside Basic Latin whose upper case lies inside it,
\* U+0131 (dotless i) to I and U+017F (long s) to S
toUpperCaseUnit(c) ==
  IF c \in 97..122 THEN c - 32
  ELSE IF c = 305 THEN 73
  ELSE IF c = 383 THEN 83
  ELSE c

\* a case folding that lets a code unit outside Basic Latin fold into it
CanonicalizeNoGuard(c) == toUpperCaseUnit(c)

\* Canonicalize of a regular expression with the i flag and without the u
\* flag: the upper case, unless that would take a code unit >= 128 below 128
Canonicalize(c) ==
  LET cu == toUpperCaseUnit(c)
  IN  IF c >= 128 /\ cu < 128 THEN c ELSE cu

\* the class [a-z0-9_-]
UsernameClass == (97..122) \cup (48..57) \cup {95, 45}

\* one code unit against [a-z0-9_-] under the i flag
MatchesUsernameClass(c) ==
  \E k \in UsernameClass : Canonicalize(k) = Canonicalize(c)

\* what isValidUsername returns
isValidUsernameReturns(username) ==
  IF /\ username.type = "string"
     /\ Len(username.chars) > 0
     /\ Len(username.chars) < 30
     /\ \A i \in 1..Len(username.chars) :
          MatchesUsernameClass(username.chars[i])
    THEN "true"
    ELSE "false"

----------------------------------------------------------------------------
(* Map<string, string>: entries in insertion order *)

MapHas(m, key) == \E i \in 1..Len(m) : m[i].name = key

MapSize(m) == Len(m)

MapGet(m, key) == m[CHOOSE i \in 1..Len(m) : m[i].name = key].value

MapKeys(m) == {m[i].name : i \in 1..Len(m)}

\* a set() that deletes the entry of an existing key instead of updating it
MapSetDropsExisting(m, key, value) ==
  IF MapHas(m, key)
    THEN SelectSeq(m, LAMBDA e : e.name # key)
    ELSE Append(m, [name |-> key, value |-> value])

\* a set() that keeps the old value of an existing key
MapSetKeepsOld(m, key, value) ==
  IF MapHas(m, key)
    THEN m
    ELSE Append(m, [name |-> key, value |-> value])

\* a set() that deletes the entry of an existing key and appends it anew
MapSetMovesToEnd(m, key, value) ==
  Append(SelectSeq(m, LAMBDA e : e.name # key),
         [name |-> key, value |-> value])

\* Map.prototype.set: update in place, or append a new entry
MapSet(m, key, value) ==
  IF MapHas(m, key)
    THEN [i \in 1..Len(m) |->
            IF m[i].name = key THEN [name |-> key, value |-> value] ELSE m[i]]
    ELSE Append(m, [name |-> key, value |-> value])

----------------------------------------------------------------------------
(* Array of client references *)

\* an includes() that looks at the first element only
includesFirstOnly(arr, x) == Len(arr) > 0 /\ arr[1] = x

\* Array.prototype.includes
includes(arr, x) == \E i \in 1..Len(arr) : arr[i] = x

\* Array.prototype.indexOf, 0-based, -1 when absent
indexOf(arr, x) ==
  IF \E i \in 1..Len(arr) : arr[i] = x
    THEN (CHOOSE i \in 1..Len(arr) :
            arr[i] = x /\ \A j \in 1..(i - 1) : arr[j] # x) - 1
    ELSE -1

\* a splice that removes the first element whatever the index
splice1RemovesFirst(arr, index) == SubSeq(arr, 2, Len(arr))

\* Array.prototype.splice(index, 1), 0-based index
splice1(arr, index) ==
  SubSeq(arr, 1, index) \o SubSeq(arr, index + 2, Len(arr))

----------------------------------------------------------------------------
(* Outcomes: "ok" or the message of the Error thrown *)

OK == "ok"

ErrClientAdded == "Client is already added to this Room."

ErrClientMissing == "Client does not belong to this Room"

ErrInvalidName == "Invalid variable name"

ErrInvalidValue == "Invalid value"

ErrExists == "Variable already exists"

ErrTooMany == "Too many variables"

ErrNotFound == "Variable does not exist"

----------------------------------------------------------------------------
(* Room methods *)

\* a hasClientWithUsername that lower-cases the members' usernames in place
hasClientWithUsernameUsernamesInPlace(us, cs, username) ==
  [c \in DOMAIN us |->
     IF username.type = "string" /\ \E i \in 1..Len(cs) : cs[i] = c
       THEN Str(toLowerCase(us[c].chars))
       ELSE us[c]]

\* the username properties after hasClientWithUsername: it assigns none
hasClientWithUsernameUsernames(us, cs, username) == us

\* what hasClientWithUsername returns; "TypeError" is the throw of
\* username.toLowerCase() on a value that is not a string
hasClientWithUsernameReturns(us, cs, username) ==
  IF username.type # "string" THEN "TypeError"
  ELSE IF \E i \in 1..Len(cs) :
            toLowerCase(us[cs[i]].chars) = toLowerCase(username.chars)
    THEN "true"
    ELSE "false"

\* an addClient that also refuses a client whose username is in use
addClientThrowsChecksUsername(cs, client) ==
  IF includes(cs, client) THEN ErrClientAdded
  ELSE IF hasClientWithUsernameReturns(usernames, cs, usernames[client]) = "true"
    THEN "Username is in use"
    ELSE OK

addClientThrows(cs, client) ==
  IF includes(cs, client) THEN ErrClientAdded ELSE OK

\* an addClient that puts the client at the front (unshift for push)
addClientClientsUnshift(cs, client) ==
  IF addClientThrows(cs, client) = OK THEN <<client>> \o cs ELSE cs

addClientClients(cs, client) ==
  IF addClientThrows(cs, client) = OK THEN Append(cs, client) ELSE cs

\* a removeClient without the index === -1 check
removeClientThrowsNever(cs, client) == OK

removeClientThrows(cs, client) ==
  IF indexOf(cs, client) = -1 THEN ErrClientMissing ELSE OK

removeClientClients(cs, client) ==
  IF removeClientThrows(cs, client) = OK
    THEN splice1(cs, indexOf(cs, client))
    ELSE cs

\* createVar without the capacity check
createVarThrowsNoCapacity(m, name, value) ==
  IF ~isValidVariableName(name) THEN ErrInvalidName
  ELSE IF ~isValidValue(value) THEN ErrInvalidValue
  ELSE IF MapHas(m, name) THEN ErrExists
  ELSE OK

\* createVar with > in place of >= in the capacity check
createVarThrowsOffByOne(m, name, value) ==
  IF ~isValidVariableName(name) THEN ErrInvalidName
  ELSE IF ~isValidValue(value) THEN ErrInvalidValue
  ELSE IF MapHas(m, name) THEN ErrExists
  ELSE IF MapSize(m) > MAX_VARIABLES THEN ErrTooMany
  ELSE OK

\* createVar with the capacity check ahead of the existence check
createVarThrowsCapacityFirst(m, name, value) ==
  IF ~isValidVariableName(name) THEN ErrInvalidName
  ELSE IF ~isValidValue(value) THEN ErrInvalidValue
  ELSE IF MapSize(m) >= MAX_VARIABLES THEN ErrTooMany
  ELSE IF MapHas(m, name) THEN ErrExists
  ELSE OK

\* createVar without the existence check
createVarThrowsNoExists(m, name, value) ==
  IF ~isValidVariableName(name) THEN ErrInvalidName
  ELSE IF ~isValidValue(value) THEN ErrInvalidValue
  ELSE IF MapSize(m) >= MAX_VARIABLES THEN ErrTooMany
  ELSE OK

\* the first throw that createVar reaches, or OK
createVarThrows(m, name, value) ==
  IF ~isValidVariableName(name) THEN ErrInvalidName
  ELSE IF ~isValidValue(value) THEN ErrInvalidValue
  ELSE IF MapHas(m, name) THEN ErrExists
  ELSE IF MapSize(m) >= MAX_VARIABLES THEN ErrTooMany
  ELSE OK

\* a createVar that stores the entry before it checks the capacity
createVarVariablesEarlyStore(m, name, value) ==
  IF createVarThrows(m, name, value) \in {OK, ErrTooMany}
    THEN MapSet(m, name, value)
    ELSE m

\* a createVar that stores the value although the name exists (an upsert)
createVarVariablesUpsert(m, name, value) ==
  IF createVarThrows(m, name, value) \in {OK, ErrExists}
    THEN MapSet(m, name, value)
    ELSE m

\* this.variables after createVar
createVarVariables(m, name, value) ==
  IF createVarThrows(m, name, value) = OK THEN MapSet(m, name, value) ELSE m

\* set without the existence check
setThrowsNoHas(m, name, value) ==
  IF ~isValidVariableName(name) THEN ErrInvalidName
  ELSE IF ~isValidValue(value) THEN ErrInvalidValue
  ELSE OK

\* set with the existence check ahead of the validity checks
setThrowsHasFirst(m, name, value) ==
  IF ~MapHas(m, name) THEN ErrNotFound
  ELSE IF ~isValidVariableName(name) THEN ErrInvalidName
  ELSE IF ~isValidValue(value) THEN ErrInvalidValue
  ELSE OK

\* the first throw that set reaches, or OK
setThrows(m, name, value) ==
  IF ~isValidVariableName(name) THEN ErrInvalidName
  ELSE IF ~isValidValue(value) THEN ErrInvalidValue
  ELSE IF ~MapHas(m, name) THEN ErrNotFound
  ELSE OK

\* this.variables after set
setVariables(m, name, value) ==
  IF setThrows(m, name, value) = OK THEN MapSet(m, name, value) ELSE m

----------------------------------------------------------------------------
(* Actions: one call of a method, run to completion *)

Call(op, name, value, client, result) ==
  [op |-> op, name |-> name, value |-> value, client |-> client,
   result |-> result]

\* "Alice"
Alice == Str(<<65, 108, 105, 99, 101>>)

\* "alice"
AliceLower == Str(<<97, 108, 105, 99, 101>>)

\* "Bob"
Bob == Str(<<66, 111, 98>>)

\* "BOB"
BobUpper == Str(<<66, 79, 66>>)

\* "eve"
Eve == Str(<<101, 118, 101>>)

\* the client objects there are
AllClients == 1..(IF FewClients > MaxClients THEN FewClients ELSE MaxClients)

\* new Room(), every client object named "Alice"
Init ==
  /\ variables = <<>>
  /\ clients = <<>>
  /\ last = Call("constructor", Undefined, Undefined, NoClient, OK)
  /\ usernames = [c \in AllClients |-> Alice]

\* new Room(), the client objects named in every way
InitClients ==
  /\ variables = <<>>
  /\ clients = <<>>
  /\ last = Call("constructor", Undefined, Undefined, NoClient, OK)
  /\ usernames \in [AllClients -> {Alice, AliceLower, Bob}]

addClient(client) ==
  /\ clients' = addClientClients(clients, client)
  /\ last' = Call("addClient", Undefined, Undefined, client,
                  addClientThrows(clients, client))
  /\ UNCHANGED <<variables, usernames>>

removeClient(client) ==
  /\ clients' = removeClientClients(clients, client)
  /\ last' = Call("removeClient", Undefined, Undefined, client,
                  removeClientThrows(clients, client))
  /\ UNCHANGED <<variables, usernames>>

createVar(name, value) ==
  /\ variables' = createVarVariables(variables, name, value)
  /\ last' = Call("createVar", name, value, NoClient,
                  createVarThrows(variables, name, value))
  /\ UNCHANGED <<clients, usernames>>

set(name, value) ==
  /\ variables' = setVariables(variables, name, value)
  /\ last' = Call("set", name, value, NoClient,
                  setThrows(variables, name, value))
  /\ UNCHANGED <<clients, usernames>>

getClients ==
  /\ last' = Call("getClients", Undefined, Undefined, NoClient, OK)
  /\ UNCHANGED <<variables, clients, usernames>>

getAllVariables ==
  /\ last' = Call("getAllVariables", Undefined, Undefined, NoClient, OK)
  /\ UNCHANGED <<variables, clients, usernames>>

hasClientWithUsername(username) ==
  /\ usernames' = hasClientWithUsernameUsernames(usernames, clients, username)
  /\ last' = Call("hasClientWithUsername", username, Undefined, NoClient,
                  hasClientWithUsernameReturns(usernames, clients, username))
  /\ UNCHANGED <<variables, clients>>

\* a call of the validator; it is given no Room
isValidUsername(username) ==
  /\ last' = Call("isValidUsername", username, Undefined, NoClient,
                  isValidUsernameReturns(username))
  /\ UNCHANGED <<variables, clients, usernames>>

----------------------------------------------------------------------------
(* Inputs *)

\* "☁ a", "☁ b", ...
ShortName(i) == Str(NAME_REQUIRED_PREFIX \o <<96 + i>>)

\* the longest valid name: 99 code units
LongestName == Str(NAME_REQUIRED_PREFIX \o Repeat(97, MAX_NAME_LENGTH - 3))

\* prefix present, 100 code units
TooLongName == Str(NAME_REQUIRED_PREFIX \o Repeat(97, MAX_NAME_LENGTH - 2))

\* "score": no prefix
NoPrefixName == Str(<<115, 99, 111, 114, 101>>)

Value0 == Str(<<48>>)

Value1 == Str(<<49>>)

\* the longest valid value: 999 code units
LongestValue == Str(Repeat(120, MAX_VALUE_LENGTH - 1))

\* 1000 code units
TooLongValue == Str(Repeat(120, MAX_VALUE_LENGTH))

(* Spec: the variable map under every kind of name and value, in any      *)
(* order, next to a small client array.                                   *)

Names ==
  {ShortName(i) : i \in 1..NumNames}
    \cup {LongestName, TooLongName, NoPrefixName, NotAString}

Values == {Value0, LongestValue, TooLongValue, NotAString}

Clients == 1..FewClients

Next ==
  \/ \E c \in Clients : addClient(c)
  \/ \E c \in Clients : removeClient(c)
  \/ \E n \in Names, v \in Values : createVar(n, v)
  \/ \E n \in Names, v \in Values : set(n, v)

Spec == Init /\ [][Next]_vars

(* SpecCap fills the room to its capacity.  Valid names differ only in    *)
(* their last code unit, which no method inspects, so a new name is       *)
(* always the first unused one of "☁ a", "☁ b", ...  Variables are        *)
(* created with the value "0", and the oldest one is the one updated.     *)

CapNameCount == MAX_VARIABLES + CapExtraNames

FirstUnused(m) ==
  IF \E i \in 1..CapNameCount : ~MapHas(m, ShortName(i))
    THEN {ShortName(CHOOSE i \in 1..CapNameCount :
            /\ ~MapHas(m, ShortName(i))
            /\ \A j \in 1..(i - 1) : MapHas(m, ShortName(j)))}
    ELSE {}

Oldest(m) == IF Len(m) = 0 THEN {} ELSE {m[1].name}

CapCreateNames(m) == MapKeys(m) \cup FirstUnused(m) \cup {NoPrefixName}

CapCreateValues == {Value0, NotAString}

CapSetNames(m) == Oldest(m) \cup FirstUnused(m) \cup {NoPrefixName}

CapSetValues == {Value0, Value1, NotAString}

NextCap ==
  \/ \E c \in Clients : addClient(c)
  \/ \E c \in Clients : removeClient(c)
  \/ \E n \in CapCreateNames(variables), v \in CapCreateValues :
       createVar(n, v)
  \/ \E n \in CapSetNames(variables), v \in CapSetValues : set(n, v)

SpecCap == Init /\ [][NextCap]_vars

(* SpecClients: the client array under more client references and the    *)
(* queries, next to a small variable map.                                 *)

ManyClients == 1..MaxClients

FewNames == {ShortName(1), NoPrefixName}

FewValues == {Value0, Value1}

QueryUsernames == {Alice, AliceLower, BobUpper, Eve, NotAString}

NextClients ==
  \/ \E c \in ManyClients : addClient(c)
  \/ \E c \in ManyClients : removeClient(c)
  \/ \E n \in FewNames, v \in FewValues : createVar(n, v)
  \/ \E n \in FewNames, v \in FewValues : set(n, v)
  \/ getClients
  \/ getAllVariables
  \/ \E u \in QueryUsernames : hasClientWithUsername(u)

SpecClients == InitClients /\ [][NextClients]_vars

(* SpecValidators: isValidUsername on texts over a few code units, on   *)
(* the texts at the length bound and on a value that is not text, next to *)
(* a room that is being filled.                                           *)

\* a Z 5 _ - and, outside the class, @ { and U+017F
UsernameUnits == {97, 90, 53, 95, 45, 64, 123, 383}

UsernameInputs ==
  {Str(u) : u \in UNION {[1..n -> UsernameUnits] : n \in 0..MaxUsernameLen}}
    \cup {Str(Repeat(97, 29)), Str(Repeat(97, 30)), NotAString}

NextValidators ==
  \/ \E x \in UsernameInputs : isValidUsername(x)
  \/ \E c \in Clients : addClient(c)
  \/ \E n \in FewNames, v \in FewValues : createVar(n, v)

SpecValidators == Init /\ [][NextValidators]_vars

----------------------------------------------------------------------------
(* Properties.  They state the rules in their own terms: the naming rule  *)
(* and the value rule are written out here, not taken from the validators *)
(* above.                                                                 *)

\* text that starts with U+2601, space and is shorter than 100 code units
NameRule(n) ==
  /\ n.type = "string"
  /\ Len(n.chars) >= 2
  /\ n.chars[1] = 9729
  /\ n.chars[2] = 32
  /\ Len(n.chars) < 100

\* text shorter than 1000 code units
ValueRule(v) ==
  /\ v.type = "string"
  /\ Len(v.chars) < 1000

Present(m, n) == \E i \in 1..Len(m) : m[i].name = n

Succeeded(c, op) == c.op = op /\ c.result = OK

\* C1: after any sequence of addClient, removeClient, createVar and set
\* calls, successful or failing, the room stores at most 10 variables.
C1_AtMostTenVariables == Len(variables) <= 10

C1_Witness ==
  /\ Len(variables) = 10
  /\ Succeeded(last, "createVar")

\* C2: every stored variable name is text that starts with the sentinel
\* prefix and is shorter than 100, and every stored value is text shorter
\* than 1000, whether createVar or set wrote the entry.
C2_StoredEntriesValid ==
  \A i \in 1..Len(variables) :
    NameRule(variables[i].name) /\ ValueRule(variables[i].value)

C2_Witness ==
  /\ Succeeded(last, "set")
  /\ last.name = LongestName
  /\ last.value = LongestValue
  /\ Present(variables, LongestName)

\* C3: a call of addClient, removeClient, createVar or set that fails
\* leaves the variable map (keys, values, order) and the client sequence
\* exactly as they were before the call.
C3_FailureLeavesStateUntouched ==
  [][last'.result # OK => variables' = variables /\ clients' = clients]_vars

C3_Witness ==
  /\ last.op = "createVar"
  /\ last.result = ErrTooMany
  /\ Len(variables) = 10
  /\ Len(clients) = 1

\* C4: no operation removes a variable: a name stored before a step is
\* still stored after it, so the set of names only grows.
C4_NamesOnlyGrow ==
  [][\A i \in 1..Len(variables) : Present(variables', variables[i].name)]_vars

C4_Witness ==
  /\ Succeeded(last, "set")
  /\ Len(variables) = 2
  /\ last.name = variables[1].name

\* C5: the client sequence holds each client reference at most once.
C5_ClientsDistinct ==
  \A i, j \in 1..Len(clients) : clients[i] = clients[j] => i = j

C5_Witness ==
  /\ last.op = "addClient"
  /\ last.result = ErrClientAdded
  /\ Len(clients) = 2

\* C6: createVar reports the first failing check in the order name shape,
\* value shape, existence, capacity: InvalidName if the name fails the rule,
\* otherwise InvalidValue if the value fails, otherwise VariableExists if
\* the name is stored, otherwise CapacityExceeded if 10 variables are held;
\* it succeeds exactly when none of the four fails.
C6_CreateVarFirstFailingCheck ==
  [][last'.op = "createVar" =>
       LET n == last'.name
           v == last'.value
           r == last'.result
       IN  /\ r = ErrInvalidName <=> ~NameRule(n)
           /\ r = ErrInvalidValue <=> NameRule(n) /\ ~ValueRule(v)
           /\ r = ErrExists <=>
                NameRule(n) /\ ValueRule(v) /\ Present(variables, n)
           /\ r = ErrTooMany <=>
                /\ NameRule(n) /\ ValueRule(v) /\ ~Present(variables, n)
                /\ Len(variables) >= 10
           /\ r = OK <=>
                /\ NameRule(n) /\ ValueRule(v) /\ ~Present(variables, n)
                /\ Len(variables) < 10]_vars

C6_Witness ==
  /\ last.op = "createVar"
  /\ last.result = ErrExists
  /\ Len(variables) = 10

C8_Original ==
  [][last'.op = "set" /\ ~Present(variables, last'.name)
     => last'.result = ErrNotFound /\ variables' = variables]_vars

\* C8 amended: set on a name that is not stored always fails and leaves the
\* map unchanged; the failure is VariableNotFound when the name and the
\* value both satisfy their rules, InvalidName when the name does not, and
\* InvalidValue when the name does and the value does not.
C8_SetOnAbsentNameFails ==
  [][last'.op = "set" /\ ~Present(variables, last'.name)
     => /\ variables' = variables
        /\ last'.result =
             IF ~NameRule(last'.name) THEN ErrInvalidName
             ELSE IF ~ValueRule(last'.value) THEN ErrInvalidValue
             ELSE ErrNotFound]_vars

C8_Witness ==
  /\ last.op = "set"
  /\ last.result = ErrNotFound
  /\ ~Present(variables, last.name)
  /\ Len(variables) >= 1

\* C9: set fails with InvalidName if the name fails the rule, otherwise
\* InvalidValue if the value fails, otherwise VariableNotFound if the name
\* is not stored; otherwise it succeeds, however many variables the room
\* holds, and it never creates a variable.
C9_SetFirstFailingCheck ==
  [][last'.op = "set" =>
       LET n == last'.name
           v == last'.value
           r == last'.result
       IN  /\ r = ErrInvalidName <=> ~NameRule(n)
           /\ r = ErrInvalidValue <=> NameRule(n) /\ ~ValueRule(v)
           /\ r = ErrNotFound <=>
                NameRule(n) /\ ValueRule(v) /\ ~Present(variables, n)
           /\ r = OK <=>
                NameRule(n) /\ ValueRule(v) /\ Present(variables, n)
           /\ Len(variables') = Len(variables)
           /\ \A i \in 1..Len(variables') :
                Present(variables, variables'[i].name)]_vars

C9_Witness ==
  /\ Succeeded(last, "set")
  /\ Len(variables) = 10
  /\ last.value = Value1

\* C10: the value read for a name is the value of the most recent
\* successful createVar or set on that name: a successful write of (n, v)
\* makes getAllVariables()[n] = v, and every other step leaves the value
\* read for n as it was.
C10_ReadsLatestWrite ==
  [][LET wrote == last'.op \in {"createVar", "set"} /\ last'.result = OK
     IN  /\ wrote =>
              /\ Present(variables', last'.name)
              /\ MapGet(variables', last'.name) = last'.value
         /\ \A i \in 1..Len(variables) :
              LET n == variables[i].name
              IN  \/ wrote /\ last'.name = n
                  \/ /\ Present(variables', n)
                     /\ MapGet(variables', n) = variables[i].value]_vars

C10_Witness ==
  /\ Succeeded(last, "set")
  /\ last.value = Value0
  /\ Len(variables) = 2
  /\ variables[2] = [name |-> last.name, value |-> Value0]
  /\ variables[1].value = LongestValue

C12_AddThenRemoveRestores ==
  [][/\ Succeeded(last', "addClient") =>
          /\ \A i \in 1..Len(clients) : clients[i] # last'.client
          /\ clients' = clients \o <<last'.client>>
     /\ /\ Succeeded(last, "addClient")
        /\ last'.op = "removeClient" /\ last'.client = last.client
        => /\ last'.result = OK
           /\ clients' \o <<last.client>> = clients]_vars

C12_Witness ==
  /\ Succeeded(last, "removeClient")
  /\ last.client = 3
  /\ clients = <<2, 1>>

\* C13: addClient on a member fails with DuplicateClient and leaves the
\* membership length unchanged; removeClient on a reference that is not a
\* member fails with ClientNotFound and leaves the membership unchanged; on
\* any other input they succeed and change the length by +1 and -1.
C13_ClientOutcomes ==
  [][LET c == last'.client
         member == \E i \in 1..Len(clients) : clients[i] = c
     IN  /\ last'.op = "addClient" =>
              IF member
                THEN /\ last'.result = ErrClientAdded
                     /\ Len(clients') = Len(clients)
                ELSE /\ last'.result = OK
                     /\ Len(clients') = Len(clients) + 1
         /\ last'.op = "removeClient" =>
              IF member
                THEN /\ last'.result = OK
                     /\ Len(clients') = Len(clients) - 1
                ELSE /\ last'.result = ErrClientMissing
                     /\ clients' = clients]_vars

C13_Witness ==
  /\ last.op = "removeClient"
  /\ last.result = ErrClientMissing
  /\ Len(clients) = 2

\* C14: the client sequence is in join order: addClient appends the new
\* reference at the end, and removeClient deletes exactly the given
\* reference and keeps the relative order of the remaining members.
C14_JoinOrder ==
  [][/\ Succeeded(last', "addClient") =>
          /\ Len(clients') = Len(clients) + 1
          /\ clients'[Len(clients')] = last'.client
          /\ \A i \in 1..Len(clients) : clients'[i] = clients[i]
     /\ Succeeded(last', "removeClient") =>
          \E k \in 1..Len(clients) :
            /\ clients[k] = last'.client
            /\ Len(clients') = Len(clients) - 1
            /\ \A i \in 1..(k - 1) : clients'[i] = clients[i]
            /\ \A i \in k..Len(clients') : clients'[i] = clients[i + 1]]_vars

C14_Witness ==
  /\ Succeeded(last, "removeClient")
  /\ last.client = 2
  /\ clients = <<3, 1>>

\* C15: the variable map enumerates in the order of the successful
\* createVar calls: createVar appends its entry after all existing ones,
\* and a successful set changes only the value of its name, leaving the
\* position of that entry and every other entry unchanged.
C15_InsertionOrder ==
  [][/\ Succeeded(last', "createVar") =>
          /\ Len(variables') = Len(variables) + 1
          /\ variables'[Len(variables')] =
               [name |-> last'.name, value |-> last'.value]
          /\ \A i \in 1..Len(variables) : variables'[i] = variables[i]
     /\ Succeeded(last', "set") =>
          /\ Len(variables') = Len(variables)
          /\ \A i \in 1..Len(variables) :
               /\ variables'[i].name = variables[i].name
               /\ variables'[i].value =
                    IF variables[i].name = last'.name
                      THEN last'.value
                      ELSE variables[i].value]_vars

C15_Witness ==
  /\ Succeeded(last, "set")
  /\ Len(variables) = 2
  /\ variables[1] = [name |-> last.name, value |-> LongestValue]
  /\ variables[2].value = Value0

\* equality of two texts that takes a-z and A-Z for the same letters
SameIgnoringCase(a, b) ==
  LET Fold(c) == IF c \in 97..122 THEN c - 32 ELSE c
  IN  /\ Len(a) = Len(b)
      /\ \A i \in 1..Len(a) : Fold(a[i]) = Fold(b[i])

SharesUsername(cs, u) ==
  \E i \in 1..Len(cs) : SameIgnoringCase(usernames[cs[i]].chars, u.chars)

\* C16: hasClientWithUsername(u) returns true if and only if the username
\* of some current member equals u when both are compared without regard
\* to case.
C16_HasClientWithUsername ==
  [][last'.op = "hasClientWithUsername" /\ last'.name.type = "string" =>
       IF SharesUsername(clients, last'.name)
         THEN last'.result = "true"
         ELSE last'.result = "false"]_vars

C16_Witness ==
  /\ last.op = "hasClientWithUsername"
  /\ last.name = AliceLower
  /\ last.result = "true"
  /\ \A i \in 1..Len(clients) : usernames[clients[i]] # AliceLower

\* C19: createVar and set, successful or failing, leave the client sequence
\* unchanged; addClient and removeClient leave the variable map unchanged;
\* getClients, getAllVariables and hasClientWithUsername change neither the
\* map, nor the client sequence, nor the username of any client.
C19_Frame ==
  [][/\ last'.op \in {"createVar", "set"} => clients' = clients
     /\ last'.op \in {"addClient", "removeClient"} => variables' = variables
     /\ last'.op \in {"getClients", "getAllVariables", "hasClientWithUsername"}
          => /\ variables' = variables
             /\ clients' = clients
             /\ usernames' = usernames]_vars

C19_Witness ==
  /\ last.op = "hasClientWithUsername"
  /\ last.result = "true"
  /\ last.name = BobUpper
  /\ Len(variables) = 1
  /\ Len(clients) = 2

\* C20: addClient looks at reference identity only: it succeeds for every
\* client that is not a member, also when the username of that client is
\* already in use by a member, so two distinct members can share a username.
C20_AddClientIgnoresUsername ==
  [][/\ last'.op = "addClient"
     /\ \A i \in 1..Len(clients) : clients[i] # last'.client
     => /\ last'.result = OK
        /\ \E i \in 1..Len(clients') : clients'[i] = last'.client]_vars

C20_Witness ==
  /\ Succeeded(last, "addClient")
  /\ \E i, j \in 1..Len(clients) :
       /\ clients[i] # clients[j]
       /\ clients[j] = last.client
       /\ usernames[clients[i]] = Alice
       /\ usernames[clients[j]] = AliceLower

\* C17: isValidUsername(x) is true if and only if x is text of 1 to 29
\* characters, each an ASCII letter of either case, a decimal digit, an
\* underscore or a hyphen; the call has no effect on the room.
C17_IsValidUsername ==
  [][last'.op = "isValidUsername" =>
       LET x == last'.name
           allowed == (65..90) \cup (97..122) \cup (48..57) \cup {95, 45}
           rule == /\ x.type = "string"
                   /\ Len(x.chars) \in 1..29
                   /\ \A i \in 1..Len(x.chars) : x.chars[i] \in allowed
       IN  /\ last'.result = IF rule THEN "true" ELSE "false"
           /\ variables' = variables
           /\ clients' = clients
           /\ usernames' = usernames]_vars

C17_Witness ==
  /\ last.op = "isValidUsername"
  /\ last.result = "true"
  /\ Len(last.name.chars) = 29
  /\ Len(variables) = 1
  /\ Len(clients) = 1

\* C18: with every call one atomic step, racing createVar calls neither
\* exceed 10 variables nor store a name twice: a createVar with a valid new
\* name on a room below its capacity succeeds; of two createVar calls with
\* distinct valid new names for the last free slot, the one that runs after
\* the successful one fails with CapacityExceeded; of two with the same new
\* name, the one that runs after the successful one fails with
\* VariableExists.
C18_RacingCreateVar ==
  [][/\ Len(variables') <= 10
     /\ \A i, j \in 1..Len(variables') :
          variables'[i].name = variables'[j].name => i = j
     /\ /\ last'.op = "createVar"
        /\ NameRule(last'.name) /\ ValueRule(last'.value)
        => /\ ~Present(variables, last'.name) /\ Len(variables) < 10
                => last'.result = OK
           /\ Succeeded(last, "createVar") /\ last'.name = last.name
                => last'.result = ErrExists /\ variables' = variables
           /\ /\ Succeeded(last, "createVar") /\ last'.name # last.name
              /\ ~Present(variables, last'.name) /\ Len(variables) = 10
              => last'.result = ErrTooMany /\ variables' = variables]_vars

C18_Witness ==
  /\ last.op = "createVar"
  /\ last.result = ErrExists
  /\ Len(variables) = 10
  /\ last.name = ShortName(10)
  /\ variables[10].name = ShortName(10)

====
